---- MODULE Spec2Model ----
(***************************************************************************)
(* plantTracker backend (src/backend/main.py): the DMS coordinate parser,  *)
(* the collection normaliser, the SQLite reload, the two read endpoints    *)
(* and the CSV upload endpoint.                                            *)
(*                                                                         *)
(* Text is a sequence of characters; a character is a one-element string,  *)
(* except the three non-ASCII glyphs of the regular expression, which are  *)
(* written "deg" (U+00B0), "rsq" (U+2019) and "rdq" (U+201D).              *)
(* Decimal degrees are fixed-point integers in units of 1/Scale degree     *)
(* (a tenth of an arc second), so deg + min/60 + sec/3600 is exact for     *)
(* seconds written with at most one fractional digit.                      *)
(***************************************************************************)
EXTENDS Integers, Sequences, FiniteSets, TLC

VARIABLES
    \* ---- one call of parse_coords (SpecParse) ----
    inp,        \* how the raw text was put together (ghost description)
    raw,        \* the argument of parse_coords: [isStr, s]
    result,     \* what parse_coords returned
    ppc,        \* "input" | "done"
    \* ---- the data directory ----
    files,      \* path -> content of the file at that path
    db,         \* data/database.db: [exists, tables, species, rows]
    \* ---- upload_csvs (runs on the event loop: one at a time) ----
    upc,        \* position of the upload handler
    upData,     \* the dataset the two uploaded files hold
    upResp,     \* "none" | "rejected" | "error" | "ok"
    uploads,    \* uploads started so far
    faulted,    \* the I/O and storage failures so far (ghost)
    installed,  \* the datasets that were made the active one (ghost)
    \* ---- a read request (runs on a worker thread) ----
    rpc,        \* position of the read handler
    req,        \* the request
    rconn,      \* "none" | "live" (the file at db_path) | "snap" (an unlinked file)
    rsnap,      \* content of the unlinked database file the connection still holds
    rtotal,     \* result of the count query
    rseen,      \* the rows the list query ran over (ghost)
    resp        \* the response

pvars == <<inp, raw, result, ppc>>
fvars == <<files, db>>
uvars == <<upc, upData, upResp, uploads, faulted, installed>>
rvars == <<rpc, req, rconn, rsnap, rtotal, rseen, resp>>
svars == <<fvars, uvars, rvars>>
vars == <<pvars, svars>>

\* ------------------------------------------------------------------ text

Digits == {"0", "1", "2", "3", "4", "5", "6", "7", "8", "9"}
WS == {" ", "\t"}
DegSep == {"deg"} \cup WS
MinSep == {"rsq", "'"} \cup WS
SecChars == Digits \cup {"."}
SecQuote == {"\"", "rdq"}
HemiChars == {"N", "S", "E", "W", "n", "s", "e", "w"}

DigitVal(c) ==
    CASE c = "0" -> 0 [] c = "1" -> 1 [] c = "2" -> 2 [] c = "3" -> 3
      [] c = "4" -> 4 [] c = "5" -> 5 [] c = "6" -> 6 [] c = "7" -> 7
      [] c = "8" -> 8 [] c = "9" -> 9

Upper(c) ==
    CASE c = "n" -> "N" [] c = "s" -> "S" [] c = "e" -> "E" [] c = "w" -> "W"
      [] OTHER -> c

\* first index >= i of s whose character is not in class (Len(s)+1 if none)
RECURSIVE SpanEnd(_, _, _)
SpanEnd(s, i, class) ==
    IF i > Len(s) \/ s[i] \notin class THEN i ELSE SpanEnd(s, i + 1, class)

\* last index <= i of s whose character is not whitespace (0 if none)
RECURSIVE SpanBack(_, _)
SpanBack(s, i) ==
    IF i < 1 \/ s[i] \notin WS THEN i ELSE SpanBack(s, i - 1)

\* str.strip()
Slice(s, a, b) == IF a > b THEN <<>> ELSE SubSeq(s, a, b)

Strip(s) == Slice(s, SpanEnd(s, 1, WS), SpanBack(s, Len(s)))

\* first index >= i of s whose character is whitespace (Len(s)+1 if none)
RECURSIVE TokenEnd(_, _)
TokenEnd(s, i) ==
    IF i > Len(s) \/ s[i] \in WS THEN i ELSE TokenEnd(s, i + 1)

\* str.split(): the maximal runs of non-whitespace characters
RECURSIVE SplitFrom(_, _)
TokenAt(s, a, b) == IF a > Len(s) THEN <<>> ELSE <<SubSeq(s, a, b - 1)>> \o SplitFrom(s, b)
TokenFrom(s, a) == TokenAt(s, a, TokenEnd(s, a))
SplitFrom(s, i) == TokenFrom(s, SpanEnd(s, i, WS))

Split(s) == SplitFrom(s, 1)

\* " ".join(parts)
RECURSIVE Join(_)
Join(parts) ==
    IF Len(parts) = 0 THEN <<>>
    ELSE IF Len(parts) = 1 THEN parts[1]
    ELSE parts[1] \o <<" ">> \o Join(Tail(parts))

\* value of a run of decimal digits
RECURSIVE ParseNat(_)
ParseNat(s) ==
    IF Len(s) = 0 THEN 0
    ELSE ParseNat(SubSeq(s, 1, Len(s) - 1)) * 10 + DigitVal(s[Len(s)])

\* ------------------------------------------------------------ optionals

Scale == 3600 * 10

NoneF == [tag |-> "None", v |-> 0]
SomeF(x) == [tag |-> "Some", v |-> x]
RaisedF == [tag |-> "Raised", v |-> 0]

NoneC == [tag |-> "None", lat |-> 0, lng |-> 0]
SomeC(la, lo) == [tag |-> "Some", lat |-> la, lng |-> lo]
RaisedC == [tag |-> "Raised", lat |-> 0, lng |-> 0]

\* ------------------------------------------------------- dms_to_decimal

\* re.match(r"(\d+)[deg\s]+(\d+)[rsq'\s]+([\d.]+)[\"rdq]?\s*([NSEW])?", s, IGNORECASE):
\* a match anchored at the start only; the character classes that follow one
\* another are disjoint, so the greedy match is the only one.
NoMatch == [matched |-> FALSE, g1 |-> <<>>, g2 |-> <<>>, g3 |-> <<>>, g4 |-> <<>>]

\* \s*([NSEW])? from index i7, after the optional seconds quote
MatchHemi(s, g1, g2, g3, i7) ==
    [matched |-> TRUE, g1 |-> g1, g2 |-> g2, g3 |-> g3,
     g4 |-> IF i7 <= Len(s) /\ s[i7] \in HemiChars THEN <<s[i7]>> ELSE <<>>]

\* ([\d.]+)["rdq]? : the seconds are s[i4..i5-1]
MatchSec(s, g1, g2, i4, i5) ==
    IF i5 > i4
    THEN MatchHemi(s, g1, g2, SubSeq(s, i4, i5 - 1),
                   SpanEnd(s, IF i5 <= Len(s) /\ s[i5] \in SecQuote THEN i5 + 1 ELSE i5, WS))
    ELSE NoMatch

\* (\d+)[rsq'\s]+ : the minutes are s[i2..i3-1], their separator ends before i4
MatchMin(s, g1, i2, i3, i4) ==
    IF i3 > i2 /\ i4 > i3
    THEN MatchSec(s, g1, SubSeq(s, i2, i3 - 1), i4, SpanEnd(s, i4, SecChars))
    ELSE NoMatch

MatchMinSep(s, g1, i2, i3) == MatchMin(s, g1, i2, i3, SpanEnd(s, i3, MinSep))

\* (\d+)[deg\s]+ : the degrees are s[1..i1-1], their separator ends before i2
MatchDeg(s, i1, i2) ==
    IF i1 > 1 /\ i2 > i1
    THEN MatchMinSep(s, SubSeq(s, 1, i1 - 1), i2, SpanEnd(s, i2, Digits))
    ELSE NoMatch

MatchDegSep(s, i1) == MatchDeg(s, i1, SpanEnd(s, i1, DegSep))

MatchDMS(s) == MatchDegSep(s, SpanEnd(s, 1, Digits))

\* float() of a run of digits and dots: a ValueError unless it holds at most one
\* dot and at least one digit; the value in tenths (one fractional digit kept)
FloatOk(s) ==
    /\ Cardinality({i \in 1..Len(s) : s[i] = "."}) <= 1
    /\ \E i \in 1..Len(s) : s[i] \in Digits

FracTenths(frac) == IF Len(frac) >= 1 THEN DigitVal(frac[1]) ELSE 0

FloatTenthsAt(s, d) == ParseNat(SubSeq(s, 1, d - 1)) * 10 + FracTenths(SubSeq(s, d + 1, Len(s)))

FloatTenths(s) == FloatTenthsAt(s, SpanEnd(s, 1, Digits))

\* dec = deg + minutes / 60 + seconds / 3600, negated for S and W
SignedDec(dec, hemi) == IF hemi \in {"S", "W"} THEN -dec ELSE dec

\* the ValueError of float() left uncaught
DecimalOf_uncaught(m, fallback_hemi) ==
    IF ~m.matched THEN NoneF
    ELSE IF ~FloatOk(m.g3) THEN RaisedF
    ELSE SomeF(SignedDec(ParseNat(m.g1) * Scale + ParseNat(m.g2) * (Scale \div 60)
                           + FloatTenths(m.g3) * (Scale \div 36000),
                         Upper(IF Len(m.g4) > 0 THEN m.g4[1] ELSE fallback_hemi)))

DecimalOf(m, fallback_hemi) ==
    IF ~m.matched THEN NoneF
    ELSE IF ~FloatOk(m.g3) THEN NoneF
    ELSE SomeF(SignedDec(ParseNat(m.g1) * Scale + ParseNat(m.g2) * (Scale \div 60)
                           + FloatTenths(m.g3) * (Scale \div 36000),
                         Upper(IF Len(m.g4) > 0 THEN m.g4[1] ELSE fallback_hemi)))

dms_to_decimal(dms, fallback_hemi) == DecimalOf(MatchDMS(Strip(dms)), fallback_hemi)

\* ---------------------------------------------------------- parse_coords

InLatRange(x) == -90 * Scale <= x /\ x <= 90 * Scale
InLngRange(x) == -180 * Scale <= x /\ x <= 180 * Scale

\* the range check left out
CoordsOf_norange(lat, lng) ==
    IF lat.tag = "Raised" \/ lng.tag = "Raised" THEN RaisedC
    ELSE IF lat.tag = "None" \/ lng.tag = "None" THEN NoneC
    ELSE SomeC(lat.v, lng.v)

\* the range check and the result of parse_coords
CoordsOf(lat, lng) ==
    IF lat.tag = "Raised" \/ lng.tag = "Raised" THEN RaisedC
    ELSE IF lat.tag = "None" \/ lng.tag = "None" THEN NoneC
    ELSE IF ~(InLatRange(lat.v) /\ InLngRange(lng.v)) THEN NoneC
    ELSE SomeC(lat.v, lng.v)

ParseParts(parts) ==
    IF Len(parts) < 2 THEN NoneC
    ELSE CoordsOf(dms_to_decimal(parts[1], "N"), dms_to_decimal(Join(Tail(parts)), "W"))

parse_coords(r) == IF ~r.isStr THEN NoneC ELSE ParseParts(Split(Strip(r.s)))

\* ------------------------------------------------- the parser's inputs

DigitChar(d) == CHOOSE c \in Digits : DigitVal(c) = d

RECURSIVE ToDigits(_)
ToDigits(n) ==
    IF n < 10 THEN <<DigitChar(n)>> ELSE ToDigits(n \div 10) \o <<DigitChar(n % 10)>>

\* how a component is written: "compact" 41deg30'0.0"N, "curly" the same with
\* the typographic quotes, "spaced" 41deg 30' 0.0" N, "bare" 41 30 0.0 N
Styles == {"compact", "curly", "spaced", "bare"}
LatDegs == {41, 91}
LngDegs == {93, 181}
LatSecs == {[sec10 |-> 0, secOk |-> TRUE], [sec10 |-> 305, secOk |-> TRUE],
            [sec10 |-> 0, secOk |-> FALSE]}
LngSecs == {[sec10 |-> 0, secOk |-> TRUE], [sec10 |-> 0, secOk |-> FALSE]}
LatHemis == {"", "N", "S", "s"}
LngHemis == {"", "E", "W"}
\* text that is not part of either component: none, a further token after the
\* longitude, characters stuck to the end of the longitude or of the latitude,
\* characters in front of the latitude or of the longitude
Junk == {"none", "token", "attached", "latAttached", "lead", "lngLead"}

Comp(st, d, sc, h) ==
    [style |-> st, deg |-> d, min |-> 30, sec10 |-> sc.sec10, secOk |-> sc.secOk, hemi |-> h]

LatComps == {Comp(st, d, sc, h) : st \in Styles, d \in LatDegs, sc \in LatSecs, h \in LatHemis}
LngComps == {Comp(st, d, sc, h) : st \in Styles, d \in LngDegs, sc \in LngSecs, h \in LngHemis}
DummyComp == Comp("compact", 41, [sec10 |-> 0, secOk |-> TRUE], "N")

Inputs ==
    {[kind |-> "pair", lat |-> la, lng |-> lo, junk |-> j] :
        la \in LatComps, lo \in LngComps, j \in Junk}
    \cup {[kind |-> k, lat |-> DummyComp, lng |-> DummyComp, junk |-> "none"] :
        k \in {"nonstr", "empty", "blank", "single", "text"}}

SecText(c) ==
    IF c.secOk THEN ToDigits(c.sec10 \div 10) \o <<".">> \o ToDigits(c.sec10 % 10)
    ELSE <<"1", ".", "2", ".", "3">>

HemiText(c) == IF c.hemi = "" THEN <<>> ELSE <<c.hemi>>

RenderComp(c) ==
    CASE c.style = "compact" ->
            ToDigits(c.deg) \o <<"deg">> \o ToDigits(c.min) \o <<"'">> \o SecText(c)
                \o <<"\"">> \o HemiText(c)
      [] c.style = "curly" ->
            ToDigits(c.deg) \o <<"deg">> \o ToDigits(c.min) \o <<"rsq">> \o SecText(c)
                \o <<"rdq">> \o HemiText(c)
      [] c.style = "spaced" ->
            ToDigits(c.deg) \o <<"deg", " ">> \o ToDigits(c.min) \o <<"'", " ">> \o SecText(c)
                \o <<"\"">> \o (IF c.hemi = "" THEN <<>> ELSE <<" ">> \o HemiText(c))
      [] c.style = "bare" ->
            ToDigits(c.deg) \o <<" ">> \o ToDigits(c.min) \o <<" ">> \o SecText(c)
                \o (IF c.hemi = "" THEN <<>> ELSE <<" ">> \o HemiText(c))

NotACoordinate ==
    <<"n", "o", "t", " ", "a", " ", "c", "o", "o", "r", "d", "i", "n", "a", "t", "e">>

RenderInput(i) ==
    CASE i.kind = "nonstr" -> [isStr |-> FALSE, s |-> <<>>]
      [] i.kind = "empty"  -> [isStr |-> TRUE, s |-> <<>>]
      [] i.kind = "blank"  -> [isStr |-> TRUE, s |-> <<" ", "\t">>]
      [] i.kind = "single" -> [isStr |-> TRUE, s |-> RenderComp(i.lat)]
      [] i.kind = "text"   -> [isStr |-> TRUE, s |-> NotACoordinate]
      [] i.kind = "pair"   ->
            [isStr |-> TRUE,
             s |-> (IF i.junk = "lead" THEN <<"x">> ELSE <<>>)
                   \o RenderComp(i.lat)
                   \o (IF i.junk = "latAttached" THEN <<"x">> ELSE <<>>)
                   \o <<" ">>
                   \o (IF i.junk = "lngLead" THEN <<"x">> ELSE <<>>)
                   \o RenderComp(i.lng)
                   \o (CASE i.junk = "token" -> <<" ", "x">>
                         [] i.junk = "attached" -> <<"x">>
                         [] OTHER -> <<>>)]

\* the signed decimal a component stands for, from its numbers (not its text)
ExpectedDec(c, fallback_hemi) ==
    LET dec == c.deg * Scale + c.min * (Scale \div 60) + c.sec10
        h == IF c.hemi = "" THEN fallback_hemi ELSE Upper(c.hemi)
    IN  IF h \in {"S", "W"} THEN -dec ELSE dec

\* ------------------------------------------------------------- datasets

SPECIES_CSV == "data/cultivationinfo.csv"
COLLECTION_CSV == "data/seedcollection.csv"
\* the upload written straight to the active path
tmp_species_inplace == "data/cultivationinfo.csv"
tmp_species == "data/cultivationinfo.csv.tmp"
tmp_collection == "data/seedcollection.csv.tmp"
Paths == {"data/cultivationinfo.csv", "data/seedcollection.csv",
          "data/cultivationinfo.csv.tmp", "data/seedcollection.csv.tmp"}

Sec0 == [sec10 |-> 0, secOk |-> TRUE]
Sec305 == [sec10 |-> 305, secOk |-> TRUE]
PairOf(la, lo) == RenderInput([kind |-> "pair", lat |-> la, lng |-> lo, junk |-> "none"])

\* the Cords column of the rows: a compact pair (41.5, -93.5); the same padded with
\* blanks; one written with blanks inside the components; one out of range; an
\* empty cell (NaN); a southern/eastern one; one exactly on 42 N 94 W
CordA == PairOf(Comp("compact", 41, Sec0, "N"), Comp("compact", 93, Sec0, "W"))
CordPad == [isStr |-> TRUE, s |-> <<" ">> \o CordA.s \o <<" ", " ">>]
CordSpaced == PairOf(Comp("spaced", 41, Sec0, "N"), Comp("spaced", 93, Sec0, "W"))
CordOut == PairOf(Comp("compact", 91, Sec0, "N"), Comp("compact", 93, Sec0, "W"))
CordNaN == [isStr |-> FALSE, s |-> <<>>]
CordSE == PairOf(Comp("curly", 41, Sec305, "s"), Comp("spaced", 93, Sec0, "E"))
CordEdge == PairOf([Comp("compact", 42, Sec0, "") EXCEPT !.min = 0],
                   [Comp("bare", 94, Sec0, "") EXCEPT !.min = 0])

CsvRow(c, sp, co) == [code |-> c, species |-> sp, cords |-> co]

\* the content of a pair of CSV files: the species codes of the species file and
\* the rows (Collection Code, Species Code, Cords) of the collection file
DataIds == {"D1", "D2", "D3"}
DataSets ==
    [d \in DataIds |->
        CASE d = "D1" -> [species |-> {"s1"},
                          rows |-> <<CsvRow("c1", "s1", CordPad), CsvRow("c2", "s9", CordNaN),
                                     CsvRow("c3", "s1", CordOut)>>]
          [] d = "D2" -> [species |-> {"s2"},
                          rows |-> <<CsvRow("c1", "s2", CordSE), CsvRow("c4", "s2", CordSpaced)>>]
          [] d = "D3" -> [species |-> {"s1", "s2"},
                          rows |-> <<CsvRow("c1", "s1", CordA), CsvRow("c5", "s2", CordEdge),
                                     CsvRow("c6", "s1", CordA)>>]]
\* the datasets an upload may bring
UploadIds == {"D1", "D2"}
Codes == {"c1", "c2", "c3", "c4", "c5", "c6", "zz"}

Absent == [state |-> "absent", data |-> "none"]
Partial(d) == [state |-> "partial", data |-> d]
Whole(d) == [state |-> "whole", data |-> d]

\* -------------------------------------------- load_and_clean_collection_csv

\* df["Latitude"] = coords.apply(lambda c: c["lat"] if c else None), and Longitude
LatitudeOf(c) == IF c.tag = "Some" THEN SomeF(c.lat) ELSE NoneF
LongitudeOf(c) == IF c.tag = "Some" THEN SomeF(c.lng) ELSE NoneF

\* the Cords cell after str.strip() (a NaN cell stays NaN)
CleanCords(co) == IF co.isStr THEN [isStr |-> TRUE, s |-> Strip(co.s)] ELSE co

WithCoords(r, co, c) ==
    [code |-> r.code, species |-> r.species, cords |-> co,
     Latitude |-> LatitudeOf(c), Longitude |-> LongitudeOf(c)]

ParsedRow(r, co) == WithCoords(r, co, parse_coords(co))

CleanRow(r) == ParsedRow(r, CleanCords(r.cords))

load_and_clean_collection_csv(rows) == [i \in 1..Len(rows) |-> CleanRow(rows[i])]

\* an exception out of parse_coords aborts the load
LoadRaises(rows) == \E i \in 1..Len(rows) : parse_coords(CleanCords(rows[i].cords)).tag = "Raised"

\* ------------------------------------------------------------ the store

NoDb == [exists |-> FALSE, tables |-> {}, species |-> {}, rows |-> <<>>]
EmptyDb == [exists |-> TRUE, tables |-> {}, species |-> {}, rows |-> <<>>]
\* the database a complete reload from dataset d builds
FullDb(d) ==
    [exists |-> TRUE, tables |-> {"SpeciesData", "CollectionData"},
     species |-> DataSets[d].species,
     rows |-> load_and_clean_collection_csv(DataSets[d].rows)]

NoRow == [code |-> "", species |-> "", cords |-> CordNaN,
          Latitude |-> NoneF, Longitude |-> NoneF, joined |-> FALSE]
Joined(d, r) ==
    [code |-> r.code, species |-> r.species, cords |-> r.cords,
     Latitude |-> r.Latitude, Longitude |-> r.Longitude, joined |-> r.species \in d.species]

\* data/query_database.txt: one collection by code, left-joined to its species
QueryOne(d, code) ==
    LET hits == {i \in 1..Len(d.rows) : d.rows[i].code = code}
    IN  IF hits = {} THEN NoRow
        ELSE Joined(d, d.rows[CHOOSE i \in hits : \A j \in hits : i <= j])

InBox(r, q) ==
    /\ r.Latitude.tag = "Some" /\ r.Longitude.tag = "Some"
    /\ q.minLat * Scale <= r.Latitude.v /\ r.Latitude.v <= q.maxLat * Scale
    /\ q.minLng * Scale <= r.Longitude.v /\ r.Longitude.v <= q.maxLng * Scale

Matching(d, q) == LET Test(r) == InBox(r, q) IN SelectSeq(d.rows, Test)

\* data/query_collections_count.txt
CountQuery(d, q) == Len(Matching(d, q))

Min(a, b) == IF a <= b THEN a ELSE b
Max(a, b) == IF a >= b THEN a ELSE b

\* data/query_collections_list.txt: ... LIMIT ? OFFSET ?
ListQuery(d, q, limit, offset) ==
    LET m == Matching(d, q)
        page == SubSeq(m, offset + 1, Min(Len(m), offset + limit))
    IN  [i \in 1..Len(page) |-> Joined(d, page[i])]

\* a statement on a database whose table is missing is an sqlite3.Error
HasTables(d) == {"SpeciesData", "CollectionData"} \subseteq d.tables

\* ------------------------------------------------------- read requests

NoReq == [op |-> "none", code |-> "", minLat |-> 0, maxLat |-> 0, minLng |-> 0, maxLng |-> 0,
          limit |-> 0, offset |-> 0]
GetReq(c) == [NoReq EXCEPT !.op = "get", !.code = c]
ListReq(a, b, c, d, l, o) ==
    [op |-> "list", code |-> "", minLat |-> a, maxLat |-> b, minLng |-> c, maxLng |-> d,
     limit |-> l, offset |-> o]

\* stmts, qlimit, qoffset: the statements the handler ran on the store and the
\* LIMIT / OFFSET it bound (ghost fields of the response)
NoResp == [status |-> 0, rec |-> NoRow, items |-> <<>>, total |-> 0, limit |-> 0, offset |-> 0,
           stmts |-> 0, qlimit |-> 0, qoffset |-> 0]
ErrorResp(code, n) == [NoResp EXCEPT !.status = code, !.stmts = n]

\* the min <= max check left out
Validate_noorder(q) ==
    IF ~(-90 <= q.minLat /\ q.minLat <= 90 /\ -90 <= q.maxLat /\ q.maxLat <= 90)
    THEN "Latitude must be between -90 and 90"
    ELSE IF ~(-180 <= q.minLng /\ q.minLng <= 180 /\ -180 <= q.maxLng /\ q.maxLng <= 180)
    THEN "Longitude must be between -180 and 180"
    ELSE ""

\* the three checks of list_collections, in order; "" when the box is accepted
Validate(q) ==
    IF ~(-90 <= q.minLat /\ q.minLat <= 90 /\ -90 <= q.maxLat /\ q.maxLat <= 90)
    THEN "Latitude must be between -90 and 90"
    ELSE IF ~(-180 <= q.minLng /\ q.minLng <= 180 /\ -180 <= q.maxLng /\ q.maxLng <= 180)
    THEN "Longitude must be between -180 and 180"
    ELSE IF q.minLat > q.maxLat \/ q.minLng > q.maxLng
    THEN "Min bounds must be less than or equal to max bounds"
    ELSE ""

\* the upper end of the clamp left out
ClampLimit_noupper(limit) == Max(1, limit)
ClampLimit(limit) == Max(1, Min(limit, 1000))
ClampOffset(offset) == Max(0, offset)

ListResponse(items, total, limit, offset) ==
    [NoResp EXCEPT !.status = 200, !.items = items, !.total = total, !.limit = limit,
                   !.offset = offset]

\* get_collection_info: backfill lat/lng from the stored Cords when either is missing
SetCoords(res, coords) ==
    [res EXCEPT !.Latitude = IF coords.tag = "Some" THEN SomeF(coords.lat) ELSE NoneF,
                !.Longitude = IF coords.tag = "Some" THEN SomeF(coords.lng) ELSE NoneF]

Backfill(res) ==
    IF res.Latitude.tag = "None" \/ res.Longitude.tag = "None"
    THEN SetCoords(res, parse_coords(res.cords))
    ELSE res

BackfillRaises(res) ==
    /\ res.Latitude.tag = "None" \/ res.Longitude.tag = "None"
    /\ parse_coords(res.cords).tag = "Raised"

\* the database file the connection reads: the one at db_path, or the unlinked
\* file the connection was opened on before os.remove
View == IF rconn = "snap" THEN rsnap ELSE db

\* sqlite3.connect("data/database.db") creates the file when there is none
Connect(next) ==
    /\ rconn' = "live"
    /\ db' = IF db.exists THEN db ELSE EmptyDb
    /\ rpc' = next
    /\ UNCHANGED <<pvars, files, uvars, req, rsnap, rtotal, rseen, resp>>

Respond(r) ==
    /\ resp' = r
    /\ rconn' = "none"
    /\ rpc' = "done"

GetBegin(codes) ==
    /\ rpc = "idle"
    /\ \E c \in codes : req' = GetReq(c)
    /\ rpc' = "g_connect"
    /\ resp' = NoResp
    /\ UNCHANGED <<pvars, fvars, uvars, rconn, rsnap, rtotal, rseen>>

GetConnect ==
    /\ rpc = "g_connect"
    /\ Connect("g_query")

\* get_collection_with_species and the rest of get_collection_info
GetQuery ==
    /\ rpc = "g_query"
    /\ IF ~HasTables(View) THEN Respond(ErrorResp(500, 1))
       ELSE LET res == QueryOne(View, req.code)
            IN  IF res = NoRow THEN Respond(ErrorResp(404, 1))
                ELSE IF BackfillRaises(res) THEN Respond(ErrorResp(500, 1))
                ELSE Respond([NoResp EXCEPT !.status = 200, !.rec = Backfill(res), !.stmts = 1])
    /\ UNCHANGED <<pvars, fvars, uvars, req, rsnap, rtotal, rseen>>

ListBegin(reqs) ==
    /\ rpc = "idle"
    /\ \E q \in reqs :
        /\ req' = q
        /\ IF Validate(q) # "" THEN Respond(ErrorResp(400, 0))
           ELSE rpc' = "l_connect" /\ resp' = NoResp /\ rconn' = rconn
    /\ UNCHANGED <<pvars, fvars, uvars, rsnap, rtotal, rseen>>

ListConnect ==
    /\ rpc = "l_connect"
    /\ Connect("l_count")

ListCount ==
    /\ rpc = "l_count"
    /\ IF ~HasTables(View) THEN Respond(ErrorResp(500, 1)) /\ rtotal' = rtotal
       ELSE /\ rtotal' = CountQuery(View, req)
            /\ rpc' = "l_list"
            /\ UNCHANGED <<rconn, resp>>
    /\ UNCHANGED <<pvars, fvars, uvars, req, rsnap, rseen>>

ListFetch ==
    /\ rpc = "l_list"
    /\ IF ~HasTables(View) THEN Respond(ErrorResp(500, 2)) /\ rseen' = rseen
       ELSE LET limit == ClampLimit(req.limit)
                offset == ClampOffset(req.offset)
                r == ListResponse(ListQuery(View, req, limit, offset), rtotal, limit, offset)
            IN  /\ Respond([r EXCEPT !.stmts = 2, !.qlimit = limit, !.qoffset = offset])
                /\ rseen' = View.rows
    /\ UNCHANGED <<pvars, fvars, uvars, req, rsnap, rtotal>>

ReadFinish ==
    /\ rpc = "done"
    /\ rpc' = "idle"
    /\ req' = NoReq
    /\ resp' = NoResp
    /\ rtotal' = 0
    /\ rseen' = <<>>
    /\ UNCHANGED <<pvars, fvars, uvars, rconn, rsnap>>

\* ------------------------------------------------------------ upload_csvs

MaxUploads == 2
MaxFaults == 1

\* an injected failure of the step at hand (an OSError, an sqlite3.Error, ...)
MayFail == {FALSE} \cup (IF faulted < MaxFaults THEN {TRUE} ELSE {})

Lower(c) == CASE c = "C" -> "c" [] c = "S" -> "s" [] c = "V" -> "v" [] OTHER -> c

\* filename.lower().endswith(".csv")
IsCsvName(n) ==
    /\ Len(n) >= 4
    /\ [i \in 1..4 |-> Lower(n[Len(n) - 4 + i])] = <<".", "c", "s", "v">>

FileNames == {<<"a", ".", "c", "s", "v">>, <<"a", ".", "C", "S", "V">>,
              <<"a", ".", "t", "x", "t">>, <<"c", "s", "v">>}

\* os.replace(src, dst)
Replace(f, src, dst) ==
    IF src = dst THEN f ELSE [f EXCEPT ![dst] = f[src], ![src] = Absent]

\* the handler raises: the caller gets an error response
UploadRaise ==
    /\ upResp' = "error"
    /\ upc' = "done"
    /\ faulted' = faulted + 1

\* initialize_sqlite_db prints the error and returns normally
InitSwallow ==
    /\ upc' = "respond"
    /\ faulted' = faulted + 1
    /\ UNCHANGED upResp

UploadBegin ==
    /\ upc = "idle"
    /\ uploads < MaxUploads
    /\ \E d \in UploadIds, sn \in FileNames, cn \in FileNames :
        IF ~IsCsvName(sn) \/ ~IsCsvName(cn)
        THEN upResp' = "rejected" /\ upc' = "done" /\ UNCHANGED <<upData, uploads>>
        ELSE upResp' = "none" /\ upc' = "open_species" /\ upData' = d /\ uploads' = uploads + 1
    /\ UNCHANGED <<pvars, fvars, faulted, installed, rvars>>

\* open(tmp_species, "wb")
OpenTmpSpecies ==
    /\ upc = "open_species"
    /\ \E fail \in MayFail :
        IF fail THEN UploadRaise /\ UNCHANGED files
        ELSE /\ files' = [files EXCEPT ![tmp_species] = Partial(upData)]
             /\ upc' = "copy_species"
             /\ UNCHANGED <<upResp, faulted>>
    /\ UNCHANGED <<pvars, db, upData, uploads, installed, rvars>>

\* shutil.copyfileobj(species_csv.file, f)
CopyTmpSpecies ==
    /\ upc = "copy_species"
    /\ \E fail \in MayFail :
        IF fail THEN UploadRaise /\ UNCHANGED files
        ELSE /\ files' = [files EXCEPT ![tmp_species] = Whole(upData)]
             /\ upc' = "open_collection"
             /\ UNCHANGED <<upResp, faulted>>
    /\ UNCHANGED <<pvars, db, upData, uploads, installed, rvars>>

OpenTmpCollection ==
    /\ upc = "open_collection"
    /\ \E fail \in MayFail :
        IF fail THEN UploadRaise /\ UNCHANGED files
        ELSE /\ files' = [files EXCEPT ![tmp_collection] = Partial(upData)]
             /\ upc' = "copy_collection"
             /\ UNCHANGED <<upResp, faulted>>
    /\ UNCHANGED <<pvars, db, upData, uploads, installed, rvars>>

CopyTmpCollection ==
    /\ upc = "copy_collection"
    /\ \E fail \in MayFail :
        IF fail THEN UploadRaise /\ UNCHANGED files
        ELSE /\ files' = [files EXCEPT ![tmp_collection] = Whole(upData)]
             /\ upc' = "replace_species"
             /\ UNCHANGED <<upResp, faulted>>
    /\ UNCHANGED <<pvars, db, upData, uploads, installed, rvars>>

\* os.replace(tmp_species, SPECIES_CSV)
ReplaceSpecies ==
    /\ upc = "replace_species"
    /\ \E fail \in MayFail :
        IF fail THEN UploadRaise /\ UNCHANGED files
        ELSE /\ files' = Replace(files, tmp_species, SPECIES_CSV)
             /\ upc' = "replace_collection"
             /\ UNCHANGED <<upResp, faulted>>
    /\ UNCHANGED <<pvars, db, upData, uploads, installed, rvars>>

\* os.replace(tmp_collection, COLLECTION_CSV)
ReplaceCollection ==
    /\ upc = "replace_collection"
    /\ \E fail \in MayFail :
        IF fail THEN UploadRaise /\ UNCHANGED files
        ELSE /\ files' = Replace(files, tmp_collection, COLLECTION_CSV)
             /\ upc' = "remove_db"
             /\ UNCHANGED <<upResp, faulted>>
    /\ UNCHANGED <<pvars, db, upData, uploads, installed, rvars>>

\* if os.path.exists(db_path): os.remove(db_path).  A connection opened on the
\* file before it is unlinked keeps reading the unlinked file.
RemoveDb ==
    /\ upc = "remove_db"
    /\ \E fail \in MayFail :
        IF fail /\ db.exists
        THEN UploadRaise /\ UNCHANGED <<db, rconn, rsnap, installed>>
        ELSE /\ db' = NoDb
             /\ IF db.exists /\ rconn = "live"
                THEN rconn' = "snap" /\ rsnap' = db
                ELSE UNCHANGED <<rconn, rsnap>>
             /\ upc' = "init_connect"
             /\ installed' = installed \cup {upData}
             /\ UNCHANGED <<upResp, faulted>>
    /\ UNCHANGED <<pvars, files, upData, uploads, rpc, req, rtotal, rseen, resp>>

\* initialize_sqlite_db: sqlite3.connect, PRAGMA
InitConnect ==
    /\ upc = "init_connect"
    /\ \E fail \in MayFail :
        IF fail THEN InitSwallow /\ UNCHANGED db
        ELSE /\ db' = IF db.exists THEN db ELSE EmptyDb
             /\ upc' = "create_species"
             /\ UNCHANGED <<upResp, faulted>>
    /\ UNCHANGED <<pvars, files, upData, uploads, installed, rvars>>

\* open('data/create_species_data.txt') and cur.execute of it: an OSError of the
\* open is not an sqlite3.Error and leaves the handler; an sqlite3.Error is printed
CreateSpeciesTable ==
    /\ upc = "create_species"
    /\ \E fail \in {"no"} \cup (IF faulted < MaxFaults THEN {"oserror", "sqlite"} ELSE {}) :
        CASE fail = "oserror" -> UploadRaise /\ UNCHANGED db
          [] fail = "sqlite" -> InitSwallow /\ UNCHANGED db
          [] fail = "no" ->
                /\ db' = [db EXCEPT !.tables = @ \cup {"SpeciesData"}]
                /\ upc' = "create_collection"
                /\ UNCHANGED <<upResp, faulted>>
    /\ UNCHANGED <<pvars, files, upData, uploads, installed, rvars>>

\* the collection table and its index
CreateCollectionTable ==
    /\ upc = "create_collection"
    /\ \E fail \in MayFail :
        IF fail THEN InitSwallow /\ UNCHANGED db
        ELSE /\ db' = [db EXCEPT !.tables = @ \cup {"CollectionData"}]
             /\ upc' = "read_csv"
             /\ UNCHANGED <<upResp, faulted>>
    /\ UNCHANGED <<pvars, files, upData, uploads, installed, rvars>>

\* pd.read_csv(SPECIES_CSV); load_and_clean_collection_csv(COLLECTION_CSV)
CsvUnreadable ==
    \/ files[SPECIES_CSV].state # "whole"
    \/ files[COLLECTION_CSV].state # "whole"
    \/ LoadRaises(DataSets[files[COLLECTION_CSV].data].rows)

ReadCsv ==
    /\ upc = "read_csv"
    /\ \E fail \in MayFail :
        IF fail \/ CsvUnreadable
        THEN /\ upc' = "respond"
             /\ faulted' = IF fail THEN faulted + 1 ELSE faulted
             /\ UNCHANGED upResp
        ELSE upc' = "insert_species" /\ UNCHANGED <<upResp, faulted>>
    /\ UNCHANGED <<pvars, fvars, upData, uploads, installed, rvars>>

\* species_df.to_sql("SpeciesData", ...); con.commit()
InsertSpecies ==
    /\ upc = "insert_species"
    /\ \E fail \in MayFail :
        IF fail THEN InitSwallow /\ UNCHANGED db
        ELSE /\ db' = [db EXCEPT !.species = @ \cup DataSets[files[SPECIES_CSV].data].species]
             /\ upc' = "insert_collection"
             /\ UNCHANGED <<upResp, faulted>>
    /\ UNCHANGED <<pvars, files, upData, uploads, installed, rvars>>

\* collection_df.to_sql("CollectionData", ...); con.commit()
InsertCollection ==
    /\ upc = "insert_collection"
    /\ \E fail \in MayFail :
        IF fail THEN InitSwallow /\ UNCHANGED db
        ELSE /\ db' = [db EXCEPT !.rows = @ \o
                          load_and_clean_collection_csv(DataSets[files[COLLECTION_CSV].data].rows)]
             /\ upc' = "respond"
             /\ UNCHANGED <<upResp, faulted>>
    /\ UNCHANGED <<pvars, files, upData, uploads, installed, rvars>>

\* return {"message": "Files saved", ...}
UploadRespond ==
    /\ upc = "respond"
    /\ upResp' = "ok"
    /\ upc' = "done"
    /\ UNCHANGED <<pvars, fvars, upData, uploads, faulted, installed, rvars>>

UploadFinish ==
    /\ upc = "done"
    /\ upc' = "idle"
    /\ upResp' = "none"
    /\ UNCHANGED <<pvars, fvars, upData, uploads, faulted, installed, rvars>>

\* ------------------------------------------------------------ SpecParse

ParserOff ==
    /\ inp = [kind |-> "empty", lat |-> DummyComp, lng |-> DummyComp, junk |-> "none"]
    /\ raw = RenderInput(inp)
    /\ result = NoneC
    /\ ppc = "off"

\* the server right after start-up on dataset d
ServerAt(d) ==
    /\ files = [p \in Paths |-> IF p \in {SPECIES_CSV, COLLECTION_CSV} THEN Whole(d) ELSE Absent]
    /\ db = FullDb(d)
    /\ upc = "idle" /\ upData = d /\ upResp = "none" /\ uploads = 0 /\ faulted = 0
    /\ installed = {d}
    /\ rpc = "idle" /\ req = NoReq /\ rconn = "none" /\ rsnap = NoDb /\ rtotal = 0
    /\ rseen = <<>> /\ resp = NoResp

ParseInit ==
    /\ inp \in Inputs
    /\ raw = RenderInput(inp)
    /\ result = NoneC
    /\ ppc = "input"
    /\ ServerAt("D1")

CallParseCoords ==
    /\ ppc = "input"
    /\ result' = parse_coords(raw)
    /\ ppc' = "done"
    /\ UNCHANGED <<inp, raw, svars>>

ParseNext == CallParseCoords

SpecParse == ParseInit /\ [][ParseNext]_vars

\* ------------------------------------------------------------ SpecQuery
\* the read endpoints on a loaded database, no reload in flight

Over == 1
LatVals == {-91, -90, 42, 90, 91}
LngVals == {-181, -180, -93, 180, 181}
Limits == ((0 - Over)..(1 + Over)) \cup ((1000 - Over)..(1000 + Over)) \cup {5000}
Offsets == (0 - Over)..(3 + Over)
WideReqs ==
    {ListReq(a, b, c, d, l, o) :
        a \in LatVals, b \in LatVals, c \in LngVals, d \in LngVals, l \in Limits, o \in Offsets}

QueryInit ==
    /\ ParserOff
    /\ \E d \in DataIds : ServerAt(d)

QueryNext ==
    \/ GetBegin(Codes) \/ GetConnect \/ GetQuery
    \/ ListBegin(WideReqs) \/ ListConnect \/ ListCount \/ ListFetch \/ ReadFinish

SpecQuery == QueryInit /\ [][QueryNext]_vars

\* ----------------------------------------------------------------- Spec
\* uploads (one at a time, on the event loop) and a read request on a worker
\* thread, interleaved statement by statement

NarrowReqs ==
    {ListReq(b[1], b[2], b[3], b[4], l, o) :
        b \in {<<-90, 90, -180, 180>>, <<41, 42, -94, -93>>, <<10, 5, 0, 0>>},
        l \in {1, 5000}, o \in {0, 1}}

Init ==
    /\ ParserOff
    /\ ServerAt("D1")

Next ==
    \/ UploadBegin \/ OpenTmpSpecies \/ CopyTmpSpecies \/ OpenTmpCollection
    \/ CopyTmpCollection \/ ReplaceSpecies \/ ReplaceCollection \/ RemoveDb
    \/ InitConnect \/ CreateSpeciesTable \/ CreateCollectionTable \/ ReadCsv
    \/ InsertSpecies \/ InsertCollection \/ UploadRespond \/ UploadFinish
    \/ GetBegin({"c1", "c2", "c3", "zz"}) \/ GetConnect \/ GetQuery
    \/ ListBegin(NarrowReqs) \/ ListConnect \/ ListCount \/ ListFetch \/ ReadFinish

Spec == Init /\ [][Next]_vars

\* =============================================================== claims

\* ---- parse_coords (SpecParse) ----

InRangeLat(x) == -90 * Scale <= x /\ x <= 90 * Scale
InRangeLng(x) == -180 * Scale <= x /\ x <= 180 * Scale
ExpectedLat == ExpectedDec(inp.lat, "N")
ExpectedLng == ExpectedDec(inp.lng, "W")
WellFormedPair ==
    /\ inp.kind = "pair" /\ inp.junk = "none"
    /\ inp.lat.secOk /\ inp.lng.secOk
    /\ InRangeLat(ExpectedLat) /\ InRangeLng(ExpectedLng)

\* C2: a latitude and a longitude component, each with its hemisphere letter and
\* written with whitespace between degrees, minutes, seconds and hemisphere, parse
\* to the signed decimals deg + min/60 + sec/3600 (negated for S and W).
C2_SpacedPairParses ==
    (/\ ppc = "done" /\ WellFormedPair
     /\ inp.lat.style = "spaced" /\ inp.lng.style = "spaced"
     /\ inp.lat.hemi \in {"N", "S", "s"} /\ inp.lng.hemi \in {"E", "W"})
    => result = SomeC(ExpectedLat, ExpectedLng)

\* (C2, for comparison) the same pair with the latitude written without blanks
\* inside it parses to the expected decimals.
C2_CompactLatParses ==
    (/\ ppc = "done" /\ WellFormedPair
     /\ inp.lat.style \in {"compact", "curly"}
     /\ inp.lat.hemi \in {"N", "S", "s"} /\ inp.lng.hemi \in {"E", "W"})
    => result = SomeC(ExpectedLat, ExpectedLng)

\* C3: a pair whose components carry no hemisphere letter parses with N applied
\* to the latitude and W to the longitude: the result is present, lat >= 0 and
\* lng <= 0 (41 30 0.0 93 30 0.0 gives 41.5, -93.5).
C3_DefaultHemispheres ==
    (/\ ppc = "done" /\ WellFormedPair
     /\ inp.lat.hemi = "" /\ inp.lng.hemi = "")
    => /\ result = SomeC(ExpectedLat, ExpectedLng)
       /\ result.lat >= 0 /\ result.lng <= 0

\* exactly two tokens, each a valid DMS pattern and nothing else
ExactTwoTokenPair ==
    /\ inp.kind = "pair" /\ inp.junk = "none"
    /\ inp.lat.style \in {"compact", "curly"} /\ inp.lng.style \in {"compact", "curly"}
    /\ inp.lat.secOk /\ inp.lng.secOk

\* C4 (as stated): every input that is not exactly a two-token pair of valid DMS
\* patterns (extra tokens and trailing characters included) gives absent.
C4_OnlyExactPairsParse ==
    (ppc = "done" /\ ~ExactTwoTokenPair) => result.tag = "None"

\* the first token, or the remaining tokens rejoined, do not begin with a DMS
\* pattern whose numbers parse
NoLeadingPattern ==
    \/ inp.kind # "pair"
    \/ inp.junk \in {"lead", "lngLead"}
    \/ inp.lat.style \in {"spaced", "bare"}
    \/ ~inp.lat.secOk \/ ~inp.lng.secOk

\* C4 (amended): parse_coords never raises, and it returns absent for a value
\* that is not a string, for fewer than two tokens, and whenever the first token
\* or the rejoined remainder does not begin with a DMS pattern whose numbers parse.
C4_UnparseableIsAbsent ==
    ppc = "done" =>
        /\ result.tag # "Raised"
        /\ NoLeadingPattern => result.tag = "None"

C4_Witness ==
    /\ ppc = "done" /\ inp.kind = "pair" /\ inp.junk = "none"
    /\ inp.lat.style = "compact" /\ ~inp.lat.secOk /\ inp.lng.secOk
    /\ result.tag = "None"

\* ---- the server (Spec, SpecQuery) ----

\* what a request answers on database d
AnswerOn(d, q) ==
    CASE q.op = "get" ->
            IF QueryOne(d, q.code) = NoRow THEN ErrorResp(404, 1)
            ELSE [NoResp EXCEPT !.status = 200, !.rec = Backfill(QueryOne(d, q.code))]
      [] q.op = "list" ->
            IF Validate(q) # "" THEN ErrorResp(400, 0)
            ELSE ListResponse(ListQuery(d, q, ClampLimit(q.limit), ClampOffset(q.offset)),
                              CountQuery(d, q), ClampLimit(q.limit), ClampOffset(q.offset))
      [] OTHER -> NoResp

SameAnswer(r, a) ==
    /\ r.status = a.status /\ r.rec = a.rec /\ r.items = a.items /\ r.total = a.total

\* C1: a read that runs while an upload reloads the database answers as it would
\* on the complete old dataset or on the complete new one (no failure involved).
C1_ReadsSeeCompleteDataset ==
    (rpc = "done" /\ faulted = 0) =>
        \E d \in installed : SameAnswer(resp, AnswerOn(FullDb(d), req))

CoordsOk(r) ==
    \/ r.Latitude.tag = "None" /\ r.Longitude.tag = "None"
    \/ /\ r.Latitude.tag = "Some" /\ r.Longitude.tag = "Some"
       /\ -90 * Scale <= r.Latitude.v /\ r.Latitude.v <= 90 * Scale
       /\ -180 * Scale <= r.Longitude.v /\ r.Longitude.v <= 180 * Scale

\* the Cords text stands for a position outside the ranges
OutOfRangeCords(r) == r.cords = CordOut

\* C5: every collection record stored, and every one returned by a read (after
\* the backfill from Cords), has Latitude and Longitude both null or both present
\* and in [-90, 90] x [-180, 180]; an out-of-range position has both null.
C5_LatLngBothOrNeither ==
    /\ \A i \in 1..Len(db.rows) :
        CoordsOk(db.rows[i]) /\ (OutOfRangeCords(db.rows[i]) => db.rows[i].Latitude.tag = "None")
    /\ \A i \in 1..Len(rsnap.rows) : CoordsOk(rsnap.rows[i])
    /\ rpc = "done" =>
        /\ CoordsOk(resp.rec)
        /\ OutOfRangeCords(resp.rec) => resp.rec.Latitude.tag = "None"
        /\ \A i \in 1..Len(resp.items) : CoordsOk(resp.items[i])

C5_Witness ==
    /\ uploads >= 1 /\ upc = "idle"
    /\ rpc = "done" /\ req.op = "get" /\ resp.status = 200
    /\ OutOfRangeCords(resp.rec) /\ resp.rec.Latitude.tag = "None"
    /\ resp.rec.Longitude.tag = "None"

PageOk ==
    /\ resp.total = Len(Matching([rows |-> rseen], req))
    /\ Len(resp.items) <= resp.limit
    /\ Len(resp.items) <= resp.total
    /\ resp.offset >= resp.total => resp.items = <<>>

\* C6: a list_collections call that succeeds returns as total the number of
\* stored records with both coordinates non-null and inside the box, at most
\* limit (and at most total) items, and no items when offset >= total.
C6_TotalAndPage ==
    (rpc = "done" /\ req.op = "list" /\ resp.status = 200) => PageOk

\* (C6, for comparison, under SpecQuery) the same with no reload in flight.
C6_TotalAndPageNoReload ==
    (rpc = "done" /\ req.op = "list" /\ resp.status = 200 /\ uploads = 0) => PageOk

\* C7: an upload never answers success while the database is empty or half
\* populated: after "Files saved" the database holds the uploaded dataset.
C7_SuccessMeansLoaded ==
    (upc = "done" /\ upResp = "ok") => db = FullDb(upData)

\* C8: the species and the collection CSV at their active paths are complete
\* files at every point of an upload, whatever step of it fails.
C8_ActiveFilesWhole ==
    /\ files[SPECIES_CSV].state = "whole"
    /\ files[COLLECTION_CSV].state = "whole"

\* a failure between the two renames: the new species file beside the old
\* collection file
C8_Witness ==
    /\ upc = "done" /\ upResp = "error"
    /\ files[SPECIES_CSV] = Whole(upData)
    /\ files[COLLECTION_CSV].data # upData
    /\ files[tmp_collection] = Whole(upData)

BadBox(q) ==
    \/ q.minLat > q.maxLat \/ q.minLng > q.maxLng
    \/ q.minLat < -90 \/ q.minLat > 90 \/ q.maxLat < -90 \/ q.maxLat > 90
    \/ q.minLng < -180 \/ q.minLng > 180 \/ q.maxLng < -180 \/ q.maxLng > 180

\* C9: list_collections answers 400 exactly for the boxes with min > max or a
\* bound out of range, and it does so before any statement on the store.
C9_BoxValidation ==
    (rpc = "done" /\ req.op = "list") =>
        /\ resp.status = 400 <=> BadBox(req)
        /\ resp.status = 400 => resp.stmts = 0 /\ rconn = "none"

C9_Witness ==
    /\ rpc = "done" /\ req.op = "list" /\ resp.status = 400
    /\ req.minLat = 90 /\ req.maxLat = -90 /\ req.minLng = -180 /\ req.maxLng = 180

ClaimedLimit(l) == IF l < 1 THEN 1 ELSE IF l > 1000 THEN 1000 ELSE l
ClaimedOffset(o) == IF o < 0 THEN 0 ELSE o

\* C10: list_collections binds and returns limit' = min(max(limit, 1), 1000) and
\* offset' = max(offset, 0), and rejects no request for its limit or offset.
C10_Clamping ==
    (rpc = "done" /\ req.op = "list") =>
        /\ resp.status = 200 =>
            /\ resp.limit = ClaimedLimit(req.limit) /\ resp.qlimit = ClaimedLimit(req.limit)
            /\ resp.offset = ClaimedOffset(req.offset) /\ resp.qoffset = ClaimedOffset(req.offset)
        /\ ~BadBox(req) => resp.status = 200

C10_Witness ==
    /\ rpc = "done" /\ req.op = "list" /\ resp.status = 200
    /\ req.limit = 5000 /\ resp.limit = 1000 /\ resp.qlimit = 1000
    /\ req.offset < 0 /\ resp.offset = 0

====
